---- MODULE Spec2Model ----
(***************************************************************************)
(* Model of the Garanti Sanal Pos payment connector                        *)
(* (payment_garanti/models/garanti_connector.py) and of the two HTTP       *)
(* endpoints that drive it (payment_garanti/controllers/main.py).          *)
(*                                                                         *)
(* Amounts are integers in thousandths of the currency unit (19.995 is     *)
(* 19995).  Python's None is the string None, a node that an XML or HTML   *)
(* document does not contain is the string Absent; neither can be the      *)
(* text of a node, which never holds a raw "<".                            *)
(***************************************************************************)
EXTENDS Integers, Sequences, FiniteSets, TLC

VARIABLES
    txs,           \* payment.transaction records, by id 1..Len(txs)
    confirmPosts,  \* per transaction: callback-confirmation posts sent to the provisioning endpoint
    last,          \* the last operation run: its inputs, outcome and effects
    logIn,         \* the HTTP exchange handed to _process_http_request
    auditLog,      \* the texts handed to provider.log_xml by the last exchange
    conn,          \* a GarantiConnector: the values it was built from and computed last
    picking        \* a stock.picking: the e-mail addresses it reads, mail_sent, the mails queued

vars == <<txs, confirmPosts, last, logIn, auditLog, conn, picking>>

--------------------------------------------------------------------------
(* Bounds *)

MaxTx == 2
MaxReqTokens == 3
MaxRespTokens == 2

--------------------------------------------------------------------------
(* Python values *)

None == "<None>"
Absent == "<absent>"
TrueVal == "<True>"

Out(kind, exc, val, html, order) ==
    [kind |-> kind, exc |-> exc, val |-> val, html |-> html, order |-> order]

Raise(exc, msg) == Out("raise", exc, msg, None, 0)
ValidationError(msg) == Raise("ValidationError", msg)
Return(val) == Out("return", None, val, None, 0)
Redirect(order) == Out("redirect", None, None, None, order)
NoOut == Out("none", None, None, None, 0)

--------------------------------------------------------------------------
(* Messages *)

MsgOrderNotFound == "Sale order not found"
MsgInvalidAmount == "Invalid amount"
MsgContactUs == "Payment Error. Please contact us."
MsgNotCompleted == "Transaction not completed"
MsgAdmin == "An error occurred. Please contact the administrator."
MsgNotAuthenticated == "Payment failed. POS: Card is not authenticated."
MsgTryAgainLong == "Payment Error: An error occurred. Please try again."
MsgTryAgain == "Payment Error: Please try again."
MsgApproved == "Approved"

\* _("Payment Error: %s") % value, for the values the model draws
PaymentErrorOf(value) ==
    IF value = "Declined by bank" THEN "Payment Error: Declined by bank"
    ELSE IF value = "Not Authenticated" THEN "Payment Error: Not Authenticated"
    ELSE "Payment Error: ?"

--------------------------------------------------------------------------
(* Sale orders: the records the endpoints look up *)

OrderIds == {1, 2}

OrderName(o) == IF o = 1 THEN "SO1" ELSE "SO2"

garanti_payment_amount(o) == IF o = 1 THEN 19990 ELSE 5000

\* sale.order search([("name", "=", name)])
OrdersNamed(name) == {o \in OrderIds : OrderName(o) = name}

--------------------------------------------------------------------------
(* odoo.tools.float_compare at the "account" decimal precision *)

AccountPrecision == 2

Abs(x) == IF x < 0 THEN -x ELSE x

Pow10(n) == IF n = 0 THEN 1 ELSE IF n = 1 THEN 10 ELSE IF n = 2 THEN 100 ELSE 1000

\* float_round(value, precision_digits), HALF-UP, on thousandths; the result
\* is in units of 10^-digits
float_round(milli, digits) ==
    LET f == Pow10(3 - digits)
        q == (Abs(milli) + (f \div 2)) \div f
    IN  IF milli < 0 THEN -q ELSE q

float_compare(a, b, digits) ==
    LET delta == float_round(a, digits) - float_round(b, digits)
    IN  IF delta = 0 THEN 0 ELSE IF delta < 0 THEN -1 ELSE 1

--------------------------------------------------------------------------
(* The provider's answers: what one outbound HTTP call can meet *)

Transports == {"ok", "conn_fail", "timeout"}

Statuses == {200, 404, 500}

\* the initiate-phase HTML page: the value of input[name=mderrormessage]
\* (Absent: no such input, NoValue: the input has no value attribute) and
\* whether form#webform0 is in the page
NoValue == "<novalue>"

HtmlBodies ==
    [mderror : {Absent, NoValue, "Not Authenticated", "Declined by bank"},
     form : BOOLEAN]

\* the provisioning endpoint's XML document: unparseable, or the texts of
\* the ReasonCode, Message and ErrorMsg nodes (None: the node is empty)
XmlBodies ==
    [wellformed : {TRUE},
     rc : {Absent, None, "00", "05"},
     msg : {Absent, None, "Approved", "Declined"},
     err : {Absent, None, "Approved", "Insufficient funds"}]
    \cup
    [wellformed : {FALSE}, rc : {Absent}, msg : {Absent}, err : {Absent}]

NetOf(Bodies) ==
    [transport : {"ok"}, status : Statuses, body : Bodies]
    \cup
    [transport : {"conn_fail", "timeout"}, status : {0}, body : Bodies]

HtmlNets == NetOf(HtmlBodies)
XmlNets == NetOf(XmlBodies)

--------------------------------------------------------------------------
(* GarantiConnector *)

RaiseForStatusServerOnly(status) == status >= 500 /\ status < 600

\* response.raise_for_status()
raise_for_status(status) == status >= 400 /\ status < 600

RequestsRetrying(net) ==
    IF net.transport = "conn_fail"
    THEN [sent |-> 2, raised |-> TRUE, exc |-> "ConnectionError", logged |-> FALSE]
    ELSE IF net.transport = "timeout"
    THEN [sent |-> 2, raised |-> TRUE, exc |-> "Timeout", logged |-> FALSE]
    ELSE IF raise_for_status(net.status)
    THEN [sent |-> 2, raised |-> TRUE, exc |-> "HTTPError", logged |-> TRUE]
    ELSE [sent |-> 1, raised |-> FALSE, exc |-> None, logged |-> TRUE]

\* sent: the HTTP requests made; logged: _process_http_request was reached
_garanti_requests(net) ==
    IF net.transport = "conn_fail"
    THEN [sent |-> 1, raised |-> TRUE, exc |-> "ConnectionError", logged |-> FALSE]
    ELSE IF net.transport = "timeout"
    THEN [sent |-> 1, raised |-> TRUE, exc |-> "Timeout", logged |-> FALSE]
    ELSE IF raise_for_status(net.status)
    THEN [sent |-> 1, raised |-> TRUE, exc |-> "HTTPError", logged |-> TRUE]
    ELSE [sent |-> 1, raised |-> FALSE, exc |-> None, logged |-> TRUE]

\* str(form) and str(soup)
FormHtml == "<form id=webform0>"
PageHtml == "<html>"

_garanti_parse_response_html(body) ==
    IF body.mderror # Absent
    THEN IF body.mderror = NoValue
         THEN Raise("KeyError", "value")
         ELSE IF body.mderror = "Not Authenticated"
         THEN ValidationError(MsgNotAuthenticated)
         ELSE ValidationError(PaymentErrorOf(body.mderror))
    ELSE IF body.form
    THEN Out("return", None, "form", FormHtml, 0)
    ELSE Out("return", None, "redirect", PageHtml, 0)

\* the result of a connector operation: the HTTP requests it made, whether
\* it parsed the response body, and what its caller gets
OpResult(sent, parsed, out) == [sent |-> sent, parsed |-> parsed, out |-> out]

_garanti_make_payment_request(net) ==
    LET r == _garanti_requests(net)
    IN  IF r.raised
        THEN OpResult(r.sent, FALSE, ValidationError(MsgTryAgainLong))
        ELSE LET p == _garanti_parse_response_html(net.body)
             IN  IF p.kind = "raise"
                 THEN OpResult(r.sent, TRUE, ValidationError(MsgTryAgainLong))
                 ELSE OpResult(r.sent, TRUE, p)

\* lines 413-422: the value returned once the response is at hand
CallbackParse(body) ==
    IF ~body.wellformed THEN MsgTryAgain
    ELSE IF body.rc = Absent THEN MsgTryAgain
    ELSE IF body.msg = Absent THEN MsgTryAgain
    ELSE IF body.rc # "00" \/ body.msg # "Approved"
    THEN IF body.err = Absent THEN MsgTryAgain ELSE body.err
    ELSE body.msg

_garanti_payment_callback(net) ==
    LET r == _garanti_requests(net)
    IN  IF r.raised
        THEN OpResult(r.sent, FALSE, Return(MsgTryAgain))
        ELSE OpResult(r.sent, TRUE, Return(CallbackParse(net.body)))

\* lines 481-486
QueryParse(body) ==
    IF ~body.wellformed THEN Raise("XMLSyntaxError", None)
    ELSE IF body.rc = Absent THEN Raise("AttributeError", "text")
    ELSE IF body.rc = None THEN Return(TrueVal)
    ELSE IF body.err = Absent THEN Raise("AttributeError", "text")
    ELSE IF body.err = None THEN Return(TrueVal)
    ELSE Return(body.err)

_garanti_query_transaction(net) ==
    LET r == _garanti_requests(net)
    IN  IF r.raised
        THEN OpResult(r.sent, FALSE, ValidationError(MsgTryAgainLong))
        ELSE OpResult(r.sent, TRUE, QueryParse(net.body))

--------------------------------------------------------------------------
(* The record of the last operation *)

Last(op, req, net, res, created, tx, pre) ==
    [op |-> op, req |-> req, net |-> net, sent |-> res.sent,
     parsed |-> res.parsed, out |-> res.out, created |-> created,
     tx |-> tx, pre |-> pre]

NoLast == Last("none", None, None, OpResult(0, FALSE, NoOut), FALSE, 0, None)

\* no connector has been built, no picking is looked at
NoConn == [op |-> "none"]
NoPicking == [op |-> "none"]

--------------------------------------------------------------------------
(* payment.transaction records *)

Tx(state, orders, message) ==
    [state |-> state, sale_order_ids |-> orders, state_message |-> message]

\* a transaction of another checkout flow, linked to no sale order
OrphanTx == Tx("draft", {}, None)

--------------------------------------------------------------------------
(* Initiate endpoint: GarantiController.garanti_s2s_create_json_3ds *)

\* kwargs: order_id (0: browse gives no record), the message of
\* _garanti_validate_card_args (None: the card data is valid) and
\* amount_total (isnum FALSE: float() raises ValueError or TypeError)
AmountInputs ==
    [isnum : {TRUE}, milli : {19990, 19994, 19995}]
    \cup [isnum : {FALSE}, milli : {0}]

InitiateRequests ==
    [order_id : {0} \cup OrderIds,
     card_error : {None, "Invalid card number"},
     amount_total : AmountInputs]

\* the responses of the payment endpoint the endpoints are run against
EndpointHtmlBodies ==
    {[mderror |-> Absent, form |-> TRUE],
     [mderror |-> Absent, form |-> FALSE],
     [mderror |-> "Not Authenticated", form |-> TRUE]}

EndpointHtmlNets ==
    {n \in HtmlNets :
        \/ n.transport = "ok" /\ n.status = 200 /\ n.body \in EndpointHtmlBodies
        \/ n.transport = "ok" /\ n.status = 500
              /\ n.body = [mderror |-> Absent, form |-> TRUE]
        \/ n.transport = "timeout"
              /\ n.body = [mderror |-> Absent, form |-> TRUE]}

InitiateValidationNoCompare(req) ==
    IF req.order_id = 0 THEN MsgOrderNotFound
    ELSE IF req.card_error # None THEN req.card_error
    ELSE IF ~req.amount_total.isnum THEN MsgInvalidAmount
    ELSE None

\* lines 29-61: the validation error raised before the transaction is
\* created, None when the request passes
InitiateValidation(req) ==
    IF req.order_id = 0 THEN MsgOrderNotFound
    ELSE IF req.card_error # None THEN req.card_error
    ELSE IF ~req.amount_total.isnum THEN MsgInvalidAmount
    ELSE IF float_compare(req.amount_total.milli,
                          garanti_payment_amount(req.order_id),
                          AccountPrecision) # 0
    THEN MsgInvalidAmount
    ELSE None

InitiateEndpoint(req, net) ==
    LET err == InitiateValidation(req)
        t == Len(txs) + 1
    IN  IF err # None
        THEN /\ last' = Last("initiate", req, net,
                             OpResult(0, FALSE, ValidationError(err)),
                             FALSE, 0, None)
             /\ UNCHANGED <<txs, confirmPosts, logIn, auditLog, conn, picking>>
        ELSE /\ Len(txs) < MaxTx
             /\ LET res == _garanti_make_payment_request(net)
                IN  IF res.out.kind = "raise"
                    THEN \* _set_transaction_error, then the read of the
                         \* unassigned response_content
                         /\ txs' = Append(txs,
                                Tx("error", {req.order_id}, MsgContactUs))
                         /\ last' = Last("initiate", req, net,
                                OpResult(res.sent, res.parsed,
                                    Raise("UnboundLocalError", "response_content")),
                                TRUE, t, None)
                    ELSE /\ txs' = Append(txs, Tx("draft", {req.order_id}, None))
                         /\ last' = Last("initiate", req, net, res, TRUE, t, None)
             /\ UNCHANGED <<confirmPosts, logIn, auditLog, conn, picking>>

--------------------------------------------------------------------------
(* Return endpoint: GarantiController.garanti_return_from_3ds_auth *)

\* kwargs: the orderid field ("": not in the payload) and the transaction
\* the payload is associated with (0, or an id no record has: none)
NotificationData == [orderid : {"", "SO1", "SO9"}, tx : 0..MaxTx]

\* the responses of the provisioning endpoint the endpoints are run against
EndpointXmlBodies ==
    {[wellformed |-> TRUE, rc |-> "00", msg |-> "Approved", err |-> None],
     [wellformed |-> TRUE, rc |-> "05", msg |-> "Declined", err |-> "Insufficient funds"],
     [wellformed |-> TRUE, rc |-> "05", msg |-> "Declined", err |-> None],
     [wellformed |-> TRUE, rc |-> "05", msg |-> "Declined", err |-> "Approved"],
     [wellformed |-> FALSE, rc |-> Absent, msg |-> Absent, err |-> Absent]}

EndpointXmlNets ==
    {n \in XmlNets :
        \/ n.transport = "ok" /\ n.status = 200 /\ n.body \in EndpointXmlBodies
        \/ n.transport = "ok" /\ n.status = 500
              /\ n.body = [wellformed |-> FALSE, rc |-> Absent, msg |-> Absent, err |-> Absent]
        \/ n.transport = "timeout"
              /\ n.body = [wellformed |-> FALSE, rc |-> Absent, msg |-> Absent, err |-> Absent]}

\* Confirmed, Declined and Errored: the states the coordinator ends in
Terminal(state) == state \in {"done", "error"}

FeedbackResult(raised, tx, records, sent) ==
    [raised |-> raised, tx |-> tx, txs |-> records, sent |-> sent]

FormFeedbackReconfirming(data, net) ==
    IF data.tx \notin DOMAIN txs
    THEN FeedbackResult(TRUE, 0, txs, 0)
    ELSE LET r == _garanti_payment_callback(net)
             approved == r.out.val = MsgApproved
         IN  FeedbackResult(FALSE, data.tx,
                 [txs EXCEPT ![data.tx].state =
                                 IF approved THEN "done" ELSE "error",
                             ![data.tx].state_message = r.out.val],
                 r.sent)

\* payment.transaction form_feedback for the garanti acquirer: the payload
\* must belong to a known transaction; a transaction in a terminal state is
\* returned as it is; otherwise the callback confirmation is sent and
\* Approved becomes done, anything else error with the returned text
form_feedback(data, net) ==
    IF data.tx \notin DOMAIN txs
    THEN FeedbackResult(TRUE, 0, txs, 0)
    ELSE IF Terminal(txs[data.tx].state)
    THEN FeedbackResult(FALSE, data.tx, txs, 0)
    ELSE LET r == _garanti_payment_callback(net)
             approved == r.out.val = MsgApproved
         IN  FeedbackResult(FALSE, data.tx,
                 [txs EXCEPT ![data.tx].state =
                                 IF approved THEN "done" ELSE "error",
                             ![data.tx].state_message = r.out.val],
                 r.sent)

\* fields.first(recordset): the record with the least id
First(orders) == CHOOSE o \in orders : \A p \in orders : o <= p

\* lines 116-124: the except branch
ReturnFailure(kwargs) ==
    IF kwargs.orderid # "" /\ OrdersNamed(kwargs.orderid) # {}
    THEN Redirect(First(OrdersNamed(kwargs.orderid)))
    ELSE Return(MsgAdmin)

ReturnAnswerUncaught(kwargs, fb) ==
    IF fb.raised THEN ReturnFailure(kwargs)
    ELSE IF fb.txs[fb.tx].sale_order_ids = {} THEN ValidationError(MsgNotCompleted)
    ELSE Redirect(First(fb.txs[fb.tx].sale_order_ids))

ReturnAnswer(kwargs, fb) ==
    IF fb.raised THEN ReturnFailure(kwargs)
    ELSE IF fb.txs[fb.tx].sale_order_ids = {} THEN ReturnFailure(kwargs)
    ELSE Redirect(First(fb.txs[fb.tx].sale_order_ids))

ReturnEndpoint(kwargs, net) ==
    LET fb == form_feedback(kwargs, net)
        pre == IF kwargs.tx \in DOMAIN txs THEN txs[kwargs.tx].state ELSE None
    IN  /\ txs' = fb.txs
        /\ confirmPosts' =
              IF fb.tx = 0 THEN confirmPosts
              ELSE [confirmPosts EXCEPT ![fb.tx] = @ + fb.sent]
        /\ last' = Last("return", kwargs, net,
                        OpResult(fb.sent, fb.sent > 0, ReturnAnswer(kwargs, fb)),
                        FALSE, fb.tx, pre)
        /\ UNCHANGED <<logIn, auditLog, conn, picking>>

--------------------------------------------------------------------------
(* The endpoints *)

NoLogIn == [debug |-> FALSE, request |-> <<>>, response |-> <<>>]

Init ==
    /\ txs = <<OrphanTx>>
    /\ confirmPosts = [t \in 1..MaxTx |-> 0]
    /\ last = NoLast
    /\ logIn = NoLogIn
    /\ auditLog = <<>>
    /\ conn = NoConn
    /\ picking = NoPicking

Initiate == \E req \in InitiateRequests, net \in EndpointHtmlNets : InitiateEndpoint(req, net)

ReturnFrom3ds == \E kwargs \in NotificationData, net \in EndpointXmlNets : ReturnEndpoint(kwargs, net)

Next == Initiate \/ ReturnFrom3ds

Spec == Init /\ [][Next]_vars

--------------------------------------------------------------------------
(* The connector's operations, run on their own against every answer of   *)
(* the provider                                                           *)

ConnectorOps == {"make_payment_request", "payment_callback", "query_transaction"}

\* a transaction the connector is built for (GarantiConnector.__init__)
InitConnector ==
    /\ txs = <<Tx("draft", {1}, None)>>
    /\ confirmPosts = [t \in 1..MaxTx |-> 0]
    /\ last = NoLast
    /\ logIn = NoLogIn
    /\ auditLog = <<>>
    /\ conn = NoConn
    /\ picking = NoPicking

ConnectorRun(op, t, net, res) ==
    /\ last' = Last(op, None, net, res, FALSE, t, txs[t].state)
    /\ UNCHANGED <<txs, confirmPosts, logIn, auditLog, conn, picking>>

MakePaymentRequest ==
    \E t \in DOMAIN txs, net \in HtmlNets :
        ConnectorRun("make_payment_request", t, net, _garanti_make_payment_request(net))

PaymentCallback ==
    \E t \in DOMAIN txs, net \in XmlNets :
        ConnectorRun("payment_callback", t, net, _garanti_payment_callback(net))

QueryTransaction ==
    \E t \in DOMAIN txs, net \in XmlNets :
        ConnectorRun("query_transaction", t, net, _garanti_query_transaction(net))

NextConnector == MakePaymentRequest \/ PaymentCallback \/ QueryTransaction

SpecConnector == InitConnector /\ [][NextConnector]_vars

--------------------------------------------------------------------------
(* Claims about the initiate endpoint *)

\* amount_total is not a number, or differs from the order's expected
\* payable amount at the account decimal precision
AmountRejected(req) ==
    \/ ~req.amount_total.isnum
    \/ /\ req.order_id \in OrderIds
       /\ float_compare(req.amount_total.milli,
                        garanti_payment_amount(req.order_id),
                        AccountPrecision) # 0

--------------------------------------------------------------------------
(* Claims about the return endpoint *)

ReturnFailed == last.tx = 0 \/ txs[last.tx].sale_order_ids = {}

\* C10: the return endpoint never ends in an exception; it redirects to the
\* transaction's first order on success, to the order named by the
\* payload's orderid on failure when there is one, and answers the generic
\* error message otherwise.
C10_ReturnAnswers ==
    last.op = "return"
        => /\ last.out.kind # "raise"
           /\ ~ReturnFailed
                 => last.out = Redirect(First(txs[last.tx].sale_order_ids))
           /\ (ReturnFailed /\ OrdersNamed(last.req.orderid) # {})
                 => /\ last.out.kind = "redirect"
                    /\ last.out.order \in OrdersNamed(last.req.orderid)
           /\ (ReturnFailed /\ OrdersNamed(last.req.orderid) = {})
                 => last.out = Return(MsgAdmin)

\* the callback of a transaction linked to no order was answered with the
\* redirect to the order the payload names
C10_Witness ==
    /\ last.op = "return"
    /\ last.tx # 0
    /\ txs[last.tx].sale_order_ids = {}
    /\ last.req.orderid = "SO1"
    /\ last.out = Redirect(1)

--------------------------------------------------------------------------
(* Claims about the connector's operations *)

Responded == last.net.transport = "ok" /\ ~(last.net.status >= 400)

ApprovalBody(body) == body.wellformed /\ body.rc = "00" /\ body.msg = "Approved"

\* C3: _garanti_payment_callback returns 'Approved' only if the response
\* has ReasonCode '00' and Message 'Approved'.
C3_ApprovedOnlyOnApproval ==
    (last.op = "payment_callback" /\ last.out.val = MsgApproved)
        => Responded /\ ApprovalBody(last.net.body)

\* a parsed response with ReasonCode, Message and ErrorMsg nodes that is
\* not an approval
DeclineBody(body) ==
    /\ body.wellformed
    /\ body.rc # Absent /\ body.msg # Absent
    /\ ~(body.rc = "00" /\ body.msg = "Approved")

\* C4: on a well-formed response that is not an approval the callback's
\* outcome is the provider's ErrorMsg text when there is one and a generic
\* message when the ErrorMsg node is absent or empty, and never the
\* approved outcome.
C4_DeclineCarriesReason ==
    (last.op = "payment_callback" /\ Responded /\ DeclineBody(last.net.body))
        => /\ last.out.val # MsgApproved
           /\ last.net.body.err \notin {Absent, None}
                 => last.out.val = last.net.body.err
           /\ last.net.body.err \in {Absent, None}
                 => last.out.val \in {MsgTryAgain, MsgTryAgainLong}

\* C5: a status query whose response is unparseable or lacks the
\* ReasonCode or the ErrorMsg node raises the connector's generic payment
\* error.
C5_QueryMalformedIsPaymentError ==
    (/\ last.op = "query_transaction"
     /\ Responded
     /\ \/ ~last.net.body.wellformed
        \/ last.net.body.rc = Absent
        \/ last.net.body.err = Absent)
        => last.out = ValidationError(MsgTryAgainLong)

\* the response cannot be read: the XML is unparseable or has no
\* ReasonCode node, the HTML error indicator has no value
Unusable(op, body) ==
    IF op = "make_payment_request" THEN body.mderror = NoValue
    ELSE ~body.wellformed \/ body.rc = Absent

ErrorOutcome(out) ==
    \/ out.kind = "raise"
    \/ out.kind = "return" /\ out.val \in {MsgTryAgain, MsgTryAgainLong}

C8_InitiateClassification ==
    (last.op = "make_payment_request" /\ Responded)
        => LET b == last.net.body
           IN  /\ b.mderror = "Not Authenticated"
                     => last.out = ValidationError(MsgNotAuthenticated)
               /\ b.mderror \notin {Absent, NoValue, "Not Authenticated"}
                     => last.out = ValidationError(PaymentErrorOf(b.mderror))
               /\ (b.mderror = Absent /\ b.form)
                     => last.out.kind = "return" /\ last.out.val = "form"
               /\ (b.mderror = Absent /\ ~b.form)
                     => last.out.kind = "return" /\ last.out.val = "redirect"

TransportFailed ==
    \/ last.net.transport \in {"conn_fail", "timeout"}
    \/ last.net.transport = "ok" /\ last.net.status \notin 200..299

--------------------------------------------------------------------------
(* Audit logging: GarantiConnector._process_http_request                  *)
(* Texts are sequences of one-character strings.                          *)

CardLen == 16
KeepLen == 4

Digits == {"0", "1", "2", "3", "4", "5", "6", "7", "8", "9"}

CardA == <<"4", "1", "1", "1", "1", "1", "1", "1", "1", "1", "1", "1", "1", "1", "1", "1">>
CardB == <<"5", "5", "0", "0", "0", "0", "0", "0", "0", "0", "0", "0", "0", "0", "0", "4">>

Tokens == {CardA, CardB, <<"&">>}

RECURSIVE TextsUpTo(_)
TextsUpTo(n) ==
    IF n = 0 THEN {<<>>}
    ELSE {<<>>} \cup {tok \o t : tok \in Tokens, t \in TextsUpTo(n - 1)}

\* re.search(r"\d{16}", data) matches at position i
DigitRunAt(data, i) ==
    /\ i + CardLen - 1 <= Len(data)
    /\ \A k \in i..(i + CardLen - 1) : data[k] \in Digits

HasDigitRun(data) == \E i \in 1..Len(data) : DigitRunAt(data, i)

\* data.replace(old, new) from position i on
RECURSIVE StrReplaceFrom(_, _, _, _)
StrReplaceFrom(data, old, new, i) ==
    IF i + Len(old) - 1 > Len(data) THEN SubSeq(data, i, Len(data))
    ELSE IF SubSeq(data, i, i + Len(old) - 1) = old
    THEN new \o StrReplaceFrom(data, old, new, i + Len(old))
    ELSE <<data[i]>> \o StrReplaceFrom(data, old, new, i + 1)

Masked(card) == <<"*", "*", "*", "*">> \o SubSeq(card, Len(card) - KeepLen + 1, Len(card))

_anonymize_sensitive_data(data) ==
    IF HasDigitRun(data)
    THEN LET i == CHOOSE j \in 1..Len(data) :
                      /\ DigitRunAt(data, j)
                      /\ \A k \in 1..(j - 1) : ~DigitRunAt(data, k)
             card == SubSeq(data, i, i + CardLen - 1)
         IN  StrReplaceFrom(data, card, Masked(card), 1)
    ELSE data

\* "Request: %s %s\n%s\n\n" % (method, url, body): the drawn text stands
\* for the url and the body
_serialize_request(text) ==
    _anonymize_sensitive_data(
        <<"R", "e", "q", "u", "e", "s", "t", ":", " ", "P", "O", "S", "T", " ">> \o text \o <<"\n", "\n">>)

\* "Response: %s\n%s\n\n" % (status_code, text)
_serialize_response(text) ==
    _anonymize_sensitive_data(
        <<"R", "e", "s", "p", "o", "n", "s", "e", ":", " ", "2", "0", "0", "\n">> \o text \o <<"\n", "\n">>)

\* the texts handed to provider.log_xml
_process_http_request(exchange) ==
    IF ~exchange.debug THEN <<>>
    ELSE <<_serialize_request(exchange.request),
           _serialize_response(exchange.response)>>

InitLog ==
    /\ txs = <<Tx("draft", {1}, None)>>
    /\ confirmPosts = [t \in 1..MaxTx |-> 0]
    /\ last = NoLast
    /\ logIn \in [debug : BOOLEAN,
                  request : TextsUpTo(MaxReqTokens),
                  response : TextsUpTo(MaxRespTokens)]
    /\ auditLog = <<>>
    /\ conn = NoConn
    /\ picking = NoPicking

ProcessHttpRequest ==
    /\ last.op = "none"
    /\ auditLog' = _process_http_request(logIn)
    /\ last' = Last("process_http_request", None, None,
                    OpResult(1, FALSE, Return(TrueVal)), FALSE, 1, txs[1].state)
    /\ UNCHANGED <<txs, confirmPosts, logIn, conn, picking>>

NextLog == ProcessHttpRequest

SpecLog == InitLog /\ [][NextLog]_vars

\* C6: no text handed to the audit log contains 16 contiguous digits.
C6_NoCardNumberLogged ==
    \A i \in DOMAIN auditLog : ~HasDigitRun(auditLog[i])

--------------------------------------------------------------------------
(* Claims about the status query and the failed payment request *)

\* C11: _garanti_query_transaction returns True only if the response has
\* ReasonCode '00' and Message 'Approved'; every other well-formed response
\* is reported as a decline, with the ErrorMsg text when there is one.
C11_QueryTrueOnlyOnApproval ==
    (last.op = "query_transaction" /\ Responded /\ last.net.body.wellformed
        /\ last.net.body.rc # Absent /\ last.net.body.msg # Absent
        /\ last.net.body.err # Absent)
        => /\ last.out = Return(TrueVal) => ApprovalBody(last.net.body)
           /\ (~ApprovalBody(last.net.body) /\ last.net.body.err # None)
                 => last.out = Return(last.net.body.err)

\* C14: when the payment request fails inside the initiate endpoint, the
\* endpoint ends in an explicit payment error, not in the read of the
\* unassigned response_content, and the created transaction is in the
\* error state.
C14_FailedRequestSurfaced ==
    (last.op = "initiate" /\ last.created
        /\ _garanti_make_payment_request(last.net).out.kind = "raise")
        => /\ last.out.kind = "raise"
           /\ last.out.exc = "ValidationError"
           /\ last.out.exc # "UnboundLocalError"
           /\ txs[last.tx].state = "error"

--------------------------------------------------------------------------
(* Amount conversion: GarantiConnector._get_amount                        *)
(* int(round(amount * 100, 0)) on IEEE doubles, computed on integers: the *)
(* amount is a number of thousandths, as float() reads it from a decimal  *)
(* with up to 3 places.                                                   *)

MaxAmountMilli == 20100

MantissaBits == 52

RECURSIVE Pow2(_)
Pow2(n) == IF n = 0 THEN 1 ELSE 2 * Pow2(n - 1)

\* (2^k) mod m
RECURSIVE Pow2Mod(_, _)
Pow2Mod(k, m) == IF k = 0 THEN 1 % m ELSE (2 * Pow2Mod(k - 1, m)) % m

\* the binary exponent of num/den: floor(log2(num/den)), for 0 < num
FloorLog2(num, den) ==
    IF num >= den
    THEN CHOOSE j \in 0..20 : den * Pow2(j) <= num /\ num < den * Pow2(j + 1)
    ELSE -(CHOOSE i \in 1..12 : den <= num * Pow2(i) /\ num * Pow2(i - 1) < den)

\* 1000 * 2^k * (double(a/1000) - a/1000), k the scale of the double's
\* mantissa: the error of reading a/1000 as a double, round-to-nearest-even
DoubleError(a) ==
    LET k == MantissaBits - FloorLog2(a, 1000)
        n == (a * Pow2Mod(k, 2000)) % 2000
        r == n % 1000
    IN  IF r < 500 THEN -r
        ELSE IF r > 500 THEN 1000 - r
        ELSE IF n = 500 THEN -500 ELSE 500

\* round(double(a/1000) * 100, 0) for a > 0: off a tie the nearest integer;
\* on a decimal tie k + 0.5 the product is k + 0.5 exactly unless the error
\* of a/1000, times 100, exceeds half a unit in the last place of the
\* product, and Python rounds the exact tie to the even integer
RoundTimes100(a) ==
    IF a % 10 # 5 THEN (a + 5) \div 10
    ELSE LET k == a \div 10
             s == DoubleError(a)
             halfUlp == 5 * Pow2(FloorLog2(a, 10) - FloorLog2(a, 1000))
         IN  IF s > halfUlp THEN k + 1
             ELSE IF s < -halfUlp THEN k
             ELSE IF k % 2 = 0 THEN k ELSE k + 1

_get_amount(amount) ==
    IF amount = 0 THEN 0
    ELSE IF amount < 0 THEN -RoundTimes100(-amount)
    ELSE RoundTimes100(amount)

InitAmount ==
    /\ txs = <<Tx("draft", {1}, None)>>
    /\ confirmPosts = [t \in 1..MaxTx |-> 0]
    /\ last = NoLast
    /\ logIn = NoLogIn
    /\ auditLog = <<>>
    /\ conn \in [op : {"amount"}, arg : 0..MaxAmountMilli, val : {0}]
    /\ picking = NoPicking

\* GarantiConnector.__init__: self.amount = self._get_amount(amount)
GetAmount ==
    /\ conn.op = "amount"
    /\ conn' = [op |-> "_get_amount", arg |-> conn.arg, val |-> _get_amount(conn.arg)]
    /\ UNCHANGED <<txs, confirmPosts, last, logIn, auditLog, picking>>

NextAmount == GetAmount

SpecAmount == InitAmount /\ [][NextAmount]_vars

\* C12: the amount in minor units is the amount rounded half away from
\* zero at 2 decimals, times 100, for every amount with up to 3 decimals.
C12_HalfAwayFromZero ==
    conn.op = "_get_amount" => conn.val = float_round(conn.arg, 2)

--------------------------------------------------------------------------
(* Request parameters: GarantiConnector._garanti_create_payment_vals      *)
(* Strings are sequences of one-character strings.                        *)

DigitChar(d) == SubSeq(<<"0", "1", "2", "3", "4", "5", "6", "7", "8", "9">>, d + 1, d + 1)

\* str(n) for an integer n
RECURSIVE IntToStr(_)
IntToStr(n) ==
    IF n < 0 THEN <<"-">> \o IntToStr(-n)
    ELSE IF n < 10 THEN DigitChar(n)
    ELSE IntToStr(n \div 10) \o DigitChar(n % 10)

\* s.zfill(width)
RECURSIVE zfill(_, _)
zfill(str, width) == IF Len(str) >= width THEN str ELSE zfill(<<"0">> \o str, width)

TerminalIdWidth == 9

\* sha1(text).hexdigest().upper(): the digest stands as the text between
\* braces, so that two digests are equal exactly when their texts are
Sha1HexUpper(text) == <<"{">> \o text \o <<"}">>

\* the acquirer's provisioning password
garanti_prov_password == <<"p", "w">>

_garanti_compute_security_data(h) ==
    Sha1HexUpper(garanti_prov_password \o zfill(h.terminal_id, TerminalIdWidth))

HashStringsNoStoreKey(h) ==
    h.terminal_id \o h.reference \o IntToStr(h.amount)
        \o h.return_url \o h.return_url \o <<"s", "a", "l", "e", "s">>
        \o _garanti_compute_security_data(h)

\* lines 177-188: h holds garanti_terminal_id, the reference, the amount in
\* minor units, _garanti_get_return_url() and garanti_store_key
HashStrings(h) ==
    h.terminal_id \o h.reference \o IntToStr(h.amount)
        \o h.return_url \o h.return_url \o <<"s", "a", "l", "e", "s">>
        \o h.store_key \o _garanti_compute_security_data(h)

\* the value saved on self.tx.garanti_secure3d_hash and the value returned
_garanti_create_secure3d_hash(h) ==
    LET saved == Sha1HexUpper(HashStrings(h))
    IN  [tx_hash |-> saved, returned |-> saved]

\* str.replace(old, new)
StrReplace(str, old, new) == StrReplaceFrom(str, old, new, 1)

\* the parameters the claims are about; year is card_args["card_valid_year"]
_garanti_create_payment_vals(h, year) ==
    [cardexpiredateyear |-> StrReplace(year, <<"2", "0">>, <<>>),
     terminalid |-> h.terminal_id,
     orderid |-> h.reference,
     txnamount |-> IntToStr(h.amount),
     successurl |-> h.return_url,
     errorurl |-> h.return_url,
     secure3dhash |-> _garanti_create_secure3d_hash(h).returned]

HashInputs ==
    [terminal_id : {<<"1">>, <<"1", "2">>},
     reference : {<<"S", "3">>, <<"S", "3", "1">>},
     amount : {1999, 999},
     return_url : {<<"u">>, <<"v">>},
     store_key : {<<"k">>, <<"k", "2">>}]

DefaultHashInput ==
    [terminal_id |-> <<"1">>, reference |-> <<"S", "3">>, amount |-> 1999,
     return_url |-> <<"u">>, store_key |-> <<"k">>]

YearDigits == {"0", "1", "2", "9"}

\* 4-digit expiry years of this and the neighbouring millennia
Years == {y \in [1..4 -> YearDigits] : y[1] \in {"1", "2"}}

DefaultYear == <<"2", "0", "2", "9">>

NoComputation == [op |-> "none"]

\* one run of _garanti_create_payment_vals; prev keeps the hash computed
\* by the run before it
CreatePaymentVals(h, year) ==
    /\ conn' = [op |-> "_garanti_create_payment_vals",
                arg |-> h,
                year |-> year,
                hash_strings |-> HashStrings(h),
                vals |-> _garanti_create_payment_vals(h, year),
                tx_hash |-> _garanti_create_secure3d_hash(h).tx_hash,
                prev |-> IF conn.op = "none" THEN NoComputation
                         ELSE [op |-> "hash", arg |-> conn.arg,
                               hash_strings |-> conn.hash_strings,
                               hash |-> conn.vals.secure3dhash]]
    /\ UNCHANGED <<txs, confirmPosts, last, logIn, auditLog, picking>>

InitVals ==
    /\ txs = <<Tx("draft", {1}, None)>>
    /\ confirmPosts = [t \in 1..MaxTx |-> 0]
    /\ last = NoLast
    /\ logIn = NoLogIn
    /\ auditLog = <<>>
    /\ conn = NoConn
    /\ picking = NoPicking

CreateValsForHash == \E h \in HashInputs : CreatePaymentVals(h, DefaultYear)

NextHash == CreateValsForHash

SpecHash == InitVals /\ [][NextHash]_vars

CreateValsForYear == \E year \in Years : CreatePaymentVals(DefaultHashInput, year)

NextYear == CreateValsForYear

SpecYear == InitVals /\ [][NextYear]_vars

HashFields == {"terminal_id", "reference", "amount", "return_url", "store_key"}

DiffersInOneField(g, h) == Cardinality({f \in HashFields : g[f] # h[f]}) = 1

\* C13: equal inputs give equal hashes, two computations whose inputs
\* differ in exactly one of terminal id, order reference, amount, return
\* url and store key hash different strings, and the secure3dhash sent is
\* the value saved on the transaction.
C13_HashOfItsInputs ==
    conn.op = "_garanti_create_payment_vals"
        => /\ conn.vals.secure3dhash = conn.tx_hash
           /\ conn.prev.op # "none"
                 => /\ conn.prev.arg = conn.arg
                          => conn.prev.hash = conn.vals.secure3dhash
                    /\ DiffersInOneField(conn.prev.arg, conn.arg)
                          => /\ conn.prev.hash_strings # conn.hash_strings
                             /\ conn.prev.hash # conn.vals.secure3dhash

\* two computations that differ in the store key alone gave two hashes
C13_Witness ==
    /\ conn.op = "_garanti_create_payment_vals"
    /\ conn.prev.op = "hash"
    /\ conn.prev.arg.store_key # conn.arg.store_key
    /\ DiffersInOneField(conn.prev.arg, conn.arg)
    /\ conn.prev.hash # conn.vals.secure3dhash
    /\ conn.vals.secure3dhash = conn.tx_hash

\* C15: cardexpiredateyear is the last 2 digits of the 4-digit expiry year.
C15_YearLastTwoDigits ==
    conn.op = "_garanti_create_payment_vals"
        => /\ conn.vals.cardexpiredateyear = SubSeq(conn.year, 3, 4)
           /\ Len(conn.vals.cardexpiredateyear) = 2

--------------------------------------------------------------------------
(* Delivery status mail: StockPicking.button_mail_send                    *)

MaxCalls == 6

\* res.partner email; "" is an address that is not set
Emails == {"", "a@x", "b@y"}

\* self.partner_id.email or self.sale_id.partner_id.email
EmailOf(p) == IF p.partner_email # "" THEN p.partner_email ELSE p.sale_email

ButtonMailSendUnguarded(p) ==
    IF EmailOf(p) # ""
    THEN [p EXCEPT !.queued = @ + 1, !.mail_sent = TRUE,
                   !.calls = @ + 1, !.last_queued = TRUE]
    ELSE [p EXCEPT !.calls = @ + 1, !.last_queued = FALSE]

\* queued: the message_post_with_template jobs put on the queue by
\* with_delay(); calls and last_queued: the calls made, and whether the
\* last one queued a mail
button_mail_send(p) ==
    IF EmailOf(p) # "" /\ ~p.mail_sent
    THEN [p EXCEPT !.queued = @ + 1, !.mail_sent = TRUE,
                   !.calls = @ + 1, !.last_queued = TRUE]
    ELSE [p EXCEPT !.calls = @ + 1, !.last_queued = FALSE]

InitMail ==
    /\ txs = <<Tx("draft", {1}, None)>>
    /\ confirmPosts = [t \in 1..MaxTx |-> 0]
    /\ last = NoLast
    /\ logIn = NoLogIn
    /\ auditLog = <<>>
    /\ conn = NoConn
    /\ picking \in [op : {"picking"}, partner_email : Emails, sale_email : Emails,
                    mail_sent : {FALSE}, queued : {0}, calls : {0},
                    last_queued : {FALSE}]

ButtonMailSend ==
    /\ picking.calls < MaxCalls
    /\ picking' = button_mail_send(picking)
    /\ UNCHANGED <<txs, confirmPosts, last, logIn, auditLog, conn>>

\* the partner of the picking or of its sale order gets another address
EditPartnerEmail ==
    /\ \E e \in Emails :
          \/ picking' = [picking EXCEPT !.partner_email = e]
          \/ picking' = [picking EXCEPT !.sale_email = e]
    /\ UNCHANGED <<txs, confirmPosts, last, logIn, auditLog, conn>>

NextMail == ButtonMailSend \/ EditPartnerEmail

SpecMail == InitMail /\ [][NextMail]_vars

MailCall == picking'.calls = picking.calls + 1

\* C16: over any sequence of button_mail_send calls at most one mail is
\* queued; a call queues a mail exactly when it finds an address and
\* mail_sent false, and then sets mail_sent; once mail_sent is true a call
\* queues nothing and leaves it true; a call that finds no address queues
\* nothing and leaves mail_sent as it was.
C16_MailQueuedAtMostOnce ==
    /\ [](picking.queued <= 1)
    /\ [][MailCall =>
            /\ (picking'.queued = picking.queued + 1)
                   <=> (EmailOf(picking) # "" /\ ~picking.mail_sent)
            /\ picking'.queued \in {picking.queued, picking.queued + 1}
            /\ (EmailOf(picking) # "" /\ ~picking.mail_sent) => picking'.mail_sent
            /\ picking.mail_sent
                   => picking'.mail_sent /\ picking'.queued = picking.queued
            /\ EmailOf(picking) = ""
                   => /\ picking'.queued = picking.queued
                      /\ picking'.mail_sent = picking.mail_sent]_vars

\* a call with no address, then a call that queued the mail, then a call
\* that found the address again and queued nothing
C16_Witness ==
    /\ picking.op = "picking"
    /\ picking.calls >= 3
    /\ picking.queued = 1
    /\ picking.mail_sent
    /\ EmailOf(picking) # ""
    /\ ~picking.last_queued

====
